---- MODULE Spec2Model ----
(***************************************************************************)
(* The record / stop / submit state machine of voice_agent_core.py:       *)
(* the hotkey dispatcher (the pynput listener thread), the capture        *)
(* threads (audio_recording_worker) and the submission threads            *)
(* (submit_audio_to_gemini), sharing the module's global variables and    *)
(* the single processing_lock.                                            *)
(*                                                                         *)
(* Threads interleave at the granularity of the statements that touch     *)
(* shared state.  A `with processing_lock:` block is two steps: the       *)
(* acquisition, and the body together with the release.                   *)
(*                                                                         *)
(* Time is counted in ticks of 0.3 s.  The clock only matters where it is *)
(* read (time.time() in on_key_press), so it advances in the step that    *)
(* reads it, by any amount.                                               *)
(***************************************************************************)
EXTENDS Integers, Sequences, FiniteSets, TLC

\* ------------------------------------------------------------------ bounds
MaxWorkers == 2      \* capture threads spawned in one run
MaxSubs == 2         \* submission threads spawned in one run
MaxBlocks == 2       \* audio blocks one capture thread appends
MaxTime == 8         \* last clock tick

\* ------------------------------------------------------- program constants
DEBOUNCE == 2        \* 0.6 s, in ticks of 0.3 s
MODEL_FLASH == "gemini-2.5-flash-preview-04-17"
MODEL_PRO == "gemini-2.5-pro-preview-03-25"
DEFAULT_MODEL == MODEL_PRO
PROMPT_MODE_TRANSCRIBE == "Transcribe"
PROMPT_MODE_ASSISTANT == "Assistant"
DEFAULT_PROMPT_MODE == PROMPT_MODE_ASSISTANT
\* the two prompt texts, abbreviated
PROMPTS == [m \in {PROMPT_MODE_TRANSCRIBE, PROMPT_MODE_ASSISTANT} |->
              IF m = PROMPT_MODE_TRANSCRIBE THEN "transcribe-prompt"
                                            ELSE "assistant-prompt"]

\* time.time() when the listener starts: the epoch clock is far more than
\* the debounce threshold past last_hotkey_time = 0
StartTime == DEBOUNCE

\* keys the listener delivers
Keys == {"shift", "shift_r", "ctrl_l", "ctrl_r", "f9", "other"}

\* ----------------------------------------------------------------- threads
Disp == <<"disp", 0>>
WorkerThread(w) == <<"worker", w>>
Free == <<"free", 0>>
Workers == 1..MaxWorkers
Subs == 1..MaxSubs

VARIABLES
    shift_pressed, ctrl_pressed,      \* modifier flags
    is_recording,                     \* the recording flag
    audio_frames,                     \* the accumulating audio sequence
    recording_thread,                 \* worker id, 0 for None
    recording_stop_event,             \* threading.Event, TRUE when set
    current_model_name, current_prompt_mode,
    processing_lock,                  \* the thread holding the lock, or Free
    last_hotkey_time,                 \* the debounce timestamp
    now,                              \* the clock at its last reading
    captured,                         \* the blocks the latest capture thread appended
    disp,                             \* the dispatcher thread
    workers,                          \* the capture threads
    subs,                             \* the submission threads
    clipboard,                        \* the system clipboard
    main                              \* the main thread

vars == <<shift_pressed, ctrl_pressed, is_recording, audio_frames,
          recording_thread, recording_stop_event, current_model_name,
          current_prompt_mode, processing_lock, last_hotkey_time, now,
          captured, disp, workers, subs, clipboard, main>>

keys == <<shift_pressed, ctrl_pressed>>
settings == <<current_model_name, current_prompt_mode>>
recording == <<is_recording, audio_frames, recording_thread, recording_stop_event,
               captured>>

\* -------------------------------------------------------------- data
\* One audio block: the k-th block the device delivered to capture thread w,
\* an array of one sample.
Block(w, k) == << <<w, k>> >>

\* np.concatenate(frames, axis=0): the samples of the blocks, in order
RECURSIVE NpConcatenate(_)
NpConcatenate(frames) ==
    IF frames = <<>> THEN <<>>
    ELSE Head(frames) \o NpConcatenate(Tail(frames))

\* A thread's record holds its position and its locals; a field the thread
\* will not read again is back at its initial value.
NoWorker == [pc |-> "none", n |-> 0, status |-> FALSE, stale |-> FALSE,
             note |-> "none"]
NoSub == [pc |-> "none", file |-> <<>>, stop_model |-> "none", stop_mode |-> "none",
          model |-> "none", prompt |-> "none", uploaded |-> FALSE,
          text |-> <<>>, result |-> "none", reason |-> "none",
          shown |-> [title |-> "none", msg |-> <<>>],
          deletes |-> 0, delete_failed |-> FALSE]
IdleDisp == [pc |-> "idle", op |-> "none", caller |-> "none", current_time |-> 0,
             ret |-> "none", note |-> "none", timed_out |-> FALSE]

NWorkers == Cardinality({w \in Workers : workers[w].pc /= "none"})
NSubs == Cardinality({s \in Subs : subs[s].pc /= "none"})
Alive(w) == workers[w].pc \notin {"none", "done"}

\* the main thread in its wait loop (lines 431-432), nothing of the finally
\* block done yet
MainRunning == [pc |-> "running", saw_recording |-> FALSE, signalled |-> FALSE,
                saw_alive |-> FALSE, joined |-> "none"]

Init ==
    /\ shift_pressed = FALSE
    /\ ctrl_pressed = FALSE
    /\ is_recording = FALSE
    /\ audio_frames = <<>>
    /\ recording_thread = 0
    /\ recording_stop_event = FALSE
    /\ current_model_name = DEFAULT_MODEL
    /\ current_prompt_mode = DEFAULT_PROMPT_MODE
    /\ processing_lock = Free
    /\ last_hotkey_time = 0
    /\ now = StartTime
    /\ captured = <<>>
    /\ disp = IdleDisp
    /\ workers = [w \in Workers |-> NoWorker]
    /\ subs = [s \in Subs |-> NoSub]
    /\ clipboard = <<>>
    /\ main = MainRunning


\* ------------------------------------------------------- hotkey dispatcher
\* the comparison of line 345 written with <= : a press exactly the
\* threshold after the last accepted one would be ignored too
DebounceIgnoredInclusive(current_time, last) == current_time - last <= DEBOUNCE

\* on_key_press, line 345: the press is ignored when it comes less than the
\* threshold after the last accepted press
DebounceIgnored(current_time, last) == current_time - last < DEBOUNCE

\* lines 351-365 with the tests of the other modifier left out: shift alone
\* decides for the prompt toggle, and any combination has an action
ClassifyShiftFirst(shift, ctrl) ==
    IF shift THEN "prompt" ELSE IF ctrl THEN "model" ELSE "record"

\* on_key_press, lines 351-365: the action chosen from the modifier flags
Classify(shift, ctrl) ==
    IF shift /\ ~ctrl THEN "prompt"
    ELSE IF ctrl /\ ~shift THEN "model"
    ELSE IF ~shift /\ ~ctrl THEN "record"
    ELSE "ignore"

\* lines 367-368 without the test of action_performed: every press that
\* passed the debounce test updates the timestamp
StampAlways(d, last) ==
    IF d.caller = "on_key_press" /\ d.op /= "debounced" THEN d.current_time ELSE last

\* on_key_press, lines 367-368: the debounce timestamp once the handler of
\* record d is through
StampAfter(d, last) ==
    IF d.caller = "on_key_press" /\ d.ret = "True" THEN d.current_time ELSE last

\* the dispatcher thread at the return of a call, with the value returned and
\* the notification shown
Returned(d, val, note) == [d EXCEPT !.pc = "return", !.ret = val, !.note = note]

\* a call of one of the four operations, from on_key_press or directly
Entered(op, caller, t) ==
    [IdleDisp EXCEPT !.pc = CASE op = "start" -> "start_lock"
                                 [] op = "stop" -> "stop_lock"
                                 [] op = "prompt" -> "prompt_lock"
                                 [] op = "model" -> "model_lock",
                     !.op = op, !.caller = caller, !.current_time = t]

\* the bounded run has a thread left for what the operation may spawn
Room(op) ==
    /\ op = "start" => NWorkers < MaxWorkers
    /\ op = "stop" => NSubs < MaxSubs

\* on_key_press, lines 344-365, for the trigger key at clock reading t:
\* debounce, then the action for the modifiers; is_recording is read here
\* (line 359) without the lock
Triggered(t) ==
    LET d == [IdleDisp EXCEPT !.op = "on_key_press", !.caller = "on_key_press",
                              !.current_time = t]
        c == Classify(shift_pressed, ctrl_pressed)
        op == IF c = "record" THEN (IF is_recording THEN "stop" ELSE "start")
              ELSE c
    IN  IF DebounceIgnored(t, last_hotkey_time)
        THEN disp' = Returned([d EXCEPT !.op = "debounced"], "none", "none")
        ELSE IF c = "ignore"
        THEN disp' = Returned([d EXCEPT !.op = "ignored"], "False", "none")
        ELSE /\ Room(op)
             /\ disp' = Entered(op, "on_key_press", t)

\* on_key_press, lines 329-365 and 369-374: a modifier key sets its flag, the
\* trigger key reads the clock and picks its action, any other key is logged
OnKeyPress(key) ==
    /\ disp.pc = "idle"
    /\ IF key \in {"shift", "shift_r"}
       THEN /\ shift_pressed' = TRUE
            /\ UNCHANGED <<ctrl_pressed, now, disp>>
       ELSE IF key \in {"ctrl_l", "ctrl_r"}
       THEN /\ ctrl_pressed' = TRUE
            /\ UNCHANGED <<shift_pressed, now, disp>>
       ELSE IF key = "f9"
       THEN /\ \E t \in now..MaxTime :
                 /\ now' = t
                 /\ Triggered(t)
            /\ UNCHANGED keys
       ELSE UNCHANGED <<keys, now, disp>>
    /\ UNCHANGED <<main, recording, settings, processing_lock, last_hotkey_time,
                   workers, subs, clipboard>>

\* on_key_press, lines 367-368, and the return to the listener loop; a
\* direct call returns to its caller
Return ==
    /\ disp.pc = "return"
    /\ last_hotkey_time' = StampAfter(disp, last_hotkey_time)
    /\ disp' = IdleDisp
    /\ UNCHANGED <<main, keys, recording, settings, processing_lock, now, workers,
                   subs, clipboard>>

\* on_key_release, lines 376-388
OnKeyRelease(key) ==
    /\ disp.pc = "idle"
    /\ shift_pressed' = IF key \in {"shift", "shift_r"} THEN FALSE ELSE shift_pressed
    /\ ctrl_pressed' = IF key \in {"ctrl_l", "ctrl_r"} THEN FALSE ELSE ctrl_pressed
    /\ UNCHANGED <<main, recording, settings, processing_lock, last_hotkey_time, now,
                   disp, workers, subs, clipboard>>

\* the module's operations called directly, outside on_key_press
DirectCall(op) ==
    /\ disp.pc = "idle"
    /\ Room(op)
    /\ disp' = Entered(op, "direct", 0)
    /\ UNCHANGED <<main, keys, recording, settings, processing_lock, last_hotkey_time,
                   now, workers, subs, clipboard>>

\* `with processing_lock:` entered by the dispatcher thread (lines 166, 183,
\* 200, 307, 317)
DispAcquire ==
    /\ disp.pc \in {"start_lock", "stop_lock", "stop_relock", "prompt_lock",
                    "model_lock"}
    /\ processing_lock = Free
    /\ processing_lock' = Disp
    /\ disp' = [disp EXCEPT !.pc =
                   CASE disp.pc = "start_lock" -> "start_body"
                     [] disp.pc = "stop_lock" -> "stop_body"
                     [] disp.pc = "stop_relock" -> "stop_final"
                     [] disp.pc = "prompt_lock" -> "prompt_body"
                     [] disp.pc = "model_lock" -> "model_body"]
    /\ UNCHANGED <<main, keys, recording, settings, last_hotkey_time, now, workers,
                   subs, clipboard>>

\* start_audio_recording without the test of line 167: a capture thread is
\* spawned whatever the recording flag says
StartAudioRecordingUnguarded ==
    /\ disp.pc = "start_body"
    /\ processing_lock' = Free
    /\ LET w == NWorkers + 1
       IN  /\ w \in Workers
           /\ is_recording' = TRUE
           /\ workers' = [workers EXCEPT ![w] =
                             [NoWorker EXCEPT !.pc = "clear_frames"]]
           /\ recording_thread' = w
           /\ captured' = <<>>
           /\ disp' = Returned(disp, "True", "Recording Started")
    /\ UNCHANGED <<main, keys, audio_frames, recording_stop_event, settings,
                   last_hotkey_time, now, subs, clipboard>>

\* start_audio_recording, lines 167-176, holding the lock
StartAudioRecording ==
    /\ disp.pc = "start_body"
    /\ processing_lock' = Free
    /\ IF is_recording
       THEN /\ disp' = Returned(disp, "False", "none")
            /\ UNCHANGED <<is_recording, recording_thread, captured, workers>>
       ELSE LET w == NWorkers + 1
            IN  /\ w \in Workers
                /\ is_recording' = TRUE
                /\ workers' = [workers EXCEPT ![w] =
                                  [NoWorker EXCEPT !.pc = "clear_frames"]]
                /\ recording_thread' = w
                /\ captured' = <<>>
                /\ disp' = Returned(disp, "True", "Recording Started")
    /\ UNCHANGED <<main, keys, audio_frames, recording_stop_event, settings,
                   last_hotkey_time, now, subs, clipboard>>

\* lines 184-189 with the event set before the test of the recording flag
StopSignalFirst ==
    /\ disp.pc = "stop_body"
    /\ processing_lock' = Free
    /\ recording_stop_event' = TRUE
    /\ disp' = IF ~is_recording THEN Returned(disp, "False", "none")
                                ELSE [disp EXCEPT !.pc = "stop_join"]
    /\ UNCHANGED <<main, keys, is_recording, audio_frames, recording_thread, captured,
                   settings, last_hotkey_time, now, workers, subs, clipboard>>

\* lines 183-197 with the join inside the `with` block: the lock is kept
\* while stop waits for the capture thread
StopSignalKeepsLock ==
    /\ disp.pc = "stop_body"
    /\ IF ~is_recording
       THEN /\ disp' = Returned(disp, "False", "none")
            /\ processing_lock' = Free
            /\ UNCHANGED recording_stop_event
       ELSE /\ recording_stop_event' = TRUE
            /\ disp' = [disp EXCEPT !.pc = "stop_join"]
            /\ UNCHANGED processing_lock
    /\ UNCHANGED <<main, keys, is_recording, audio_frames, recording_thread, captured,
                   settings, last_hotkey_time, now, workers, subs, clipboard>>

\* stop_audio_recording_and_process, lines 184-189, holding the lock
StopSignal ==
    /\ disp.pc = "stop_body"
    /\ processing_lock' = Free
    /\ IF ~is_recording
       THEN /\ disp' = Returned(disp, "False", "none")
            /\ UNCHANGED recording_stop_event
       ELSE /\ recording_stop_event' = TRUE
            /\ disp' = [disp EXCEPT !.pc = "stop_join"]
    /\ UNCHANGED <<main, keys, is_recording, audio_frames, recording_thread, captured,
                   settings, last_hotkey_time, now, workers, subs, clipboard>>

\* stop_audio_recording_and_process, lines 192-197, without the lock: the
\* thread is None or has ended, or the join returns once it has
StopJoin ==
    /\ disp.pc = "stop_join"
    /\ recording_thread = 0 \/ ~Alive(recording_thread)
    /\ disp' = [disp EXCEPT !.pc = "stop_relock"]
    /\ recording_thread' = 0
    /\ UNCHANGED <<main, keys, is_recording, audio_frames, recording_stop_event, captured,
                   settings, processing_lock, last_hotkey_time, now, workers,
                   subs, clipboard>>

\* a join timeout treated as fatal: stop gives up and returns False
StopJoinTimeoutFatal ==
    /\ disp.pc = "stop_join"
    /\ recording_thread /= 0 /\ Alive(recording_thread)
    /\ disp' = Returned([disp EXCEPT !.timed_out = TRUE], "False", "none")
    /\ UNCHANGED <<main, keys, recording, settings, processing_lock, last_hotkey_time,
                   now, workers, subs, clipboard>>

\* stop_audio_recording_and_process, lines 194-197: the join returns after
\* 2 s with the thread still alive
StopJoinTimeout ==
    /\ disp.pc = "stop_join"
    /\ recording_thread /= 0 /\ Alive(recording_thread)
    /\ disp' = [disp EXCEPT !.pc = "stop_relock", !.timed_out = TRUE]
    /\ recording_thread' = 0
    /\ UNCHANGED <<main, keys, is_recording, audio_frames, recording_stop_event, captured,
                   settings, processing_lock, last_hotkey_time, now, workers,
                   subs, clipboard>>

\* a submission thread started on the saved file (lines 223-224); the
\* settings in effect at that moment are kept beside it for reference
Spawned(file, model_name, prompt_mode) ==
    [NoSub EXCEPT !.pc = "upload", !.file = file,
                  !.stop_model = model_name, !.stop_mode = prompt_mode]

\* stop_audio_recording_and_process, lines 203 and 210: what is saved and
\* handed to the submission, nothing for an empty sequence
HandedOff(frames) == NpConcatenate(frames)

\* `audio_frames = []` (lines 128 and 231) binds the name to a new list.  A
\* capture thread waiting in data_queue.get (line 149) has already taken
\* audio_frames.append from the old list, so what it appends next is lost.
Rebound(ws) ==
    [w \in Workers |-> IF ws[w].pc = "get" THEN [ws[w] EXCEPT !.stale = TRUE]
                                             ELSE ws[w]]

\* stop_audio_recording_and_process, lines 201-231, holding the lock
StopFinal ==
    /\ disp.pc = "stop_final"
    /\ processing_lock' = Free
    /\ is_recording' = FALSE
    /\ captured' = <<>>
    /\ IF HandedOff(audio_frames) = <<>>
       THEN /\ disp' = Returned(disp, "True", "Recording Error")
            /\ UNCHANGED <<audio_frames, workers, subs>>
       ELSE /\ audio_frames' = <<>>
            /\ workers' = Rebound(workers)
            /\ \/ LET s == NSubs + 1          \* write_wav succeeded
                  IN  /\ s \in Subs
                      /\ subs' = [subs EXCEPT ![s] =
                                     Spawned(HandedOff(audio_frames),
                                             current_model_name, current_prompt_mode)]
                      /\ disp' = Returned(disp, "True", "Recording Saved")
               \/ /\ disp' = Returned(disp, "True", "Processing Error")
                  /\ UNCHANGED subs             \* the save raised
    /\ UNCHANGED <<main, keys, recording_thread, recording_stop_event, settings,
                   last_hotkey_time, now, clipboard>>

\* line 308 as a plain assignment of the Transcribe mode
ToggledModeStuck(m) == PROMPT_MODE_TRANSCRIBE

\* cycle_prompt_mode, line 308
ToggledMode(m) ==
    IF m = PROMPT_MODE_ASSISTANT THEN PROMPT_MODE_TRANSCRIBE ELSE PROMPT_MODE_ASSISTANT

\* cycle_prompt_mode, lines 308-312, holding the lock
CyclePromptMode ==
    /\ disp.pc = "prompt_body"
    /\ processing_lock' = Free
    /\ current_prompt_mode' = ToggledMode(current_prompt_mode)
    /\ disp' = Returned(disp, "True", "Mode Changed")
    /\ UNCHANGED <<main, keys, recording, current_model_name, last_hotkey_time, now,
                   workers, subs, clipboard>>

\* cycle_ai_model, line 318
ToggledModel(m) == IF m = MODEL_PRO THEN MODEL_FLASH ELSE MODEL_PRO

\* cycle_ai_model putting the prompt mode back to its default as well
CycleAiModelResetsMode ==
    /\ disp.pc = "model_body"
    /\ processing_lock' = Free
    /\ current_model_name' = ToggledModel(current_model_name)
    /\ current_prompt_mode' = DEFAULT_PROMPT_MODE
    /\ disp' = Returned(disp, "True", "Model Changed")
    /\ UNCHANGED <<main, keys, recording, last_hotkey_time, now, workers, subs, clipboard>>

\* cycle_ai_model, lines 318-322, holding the lock
CycleAiModel ==
    /\ disp.pc = "model_body"
    /\ processing_lock' = Free
    /\ current_model_name' = ToggledModel(current_model_name)
    /\ disp' = Returned(disp, "True", "Model Changed")
    /\ UNCHANGED <<main, keys, recording, current_prompt_mode, last_hotkey_time, now,
                   workers, subs, clipboard>>

\* ----------------------------------------------------------- capture thread
\* sd_callback, lines 135-139: a status warning is logged; the block is
\* queued either way
SdCallback(indata, status) == indata

\* audio_recording_worker, lines 154-156: the exception is logged and the
\* user notified; the thread then waits for the lock (line 158)
Raised(wk) == [wk EXCEPT !.pc = "except_lock", !.status = FALSE, !.stale = FALSE,
                         !.note = "Recording Error"]

\* the thread has ended; the notification it showed stays on the screen
Ended(wk) == [NoWorker EXCEPT !.pc = "done", !.note = wk.note]

\* audio_recording_worker, line 128
WorkerClearFrames(w) ==
    /\ workers[w].pc = "clear_frames"
    /\ audio_frames' = <<>>
    /\ workers' = [Rebound(workers) EXCEPT ![w].pc = "clear_event"]
    /\ UNCHANGED <<main, keys, is_recording, recording_thread, recording_stop_event,
                   captured, settings, processing_lock, last_hotkey_time, now,
                   disp, subs, clipboard>>

\* audio_recording_worker, line 129
WorkerClearEvent(w) ==
    /\ workers[w].pc = "clear_event"
    /\ recording_stop_event' = FALSE
    /\ workers' = [workers EXCEPT ![w].pc = "open"]
    /\ UNCHANGED <<main, keys, is_recording, audio_frames, recording_thread, captured,
                   settings, processing_lock, last_hotkey_time, now, disp, subs,
                   clipboard>>

\* audio_recording_worker, lines 141-145: the input stream opens
WorkerOpenStream(w) ==
    /\ workers[w].pc = "open"
    /\ workers' = [workers EXCEPT ![w].pc = "loop"]
    /\ UNCHANGED <<main, keys, recording, settings, processing_lock, last_hotkey_time,
                   now, disp, subs, clipboard>>

\* audio_recording_worker, lines 146 and 152: the loop condition; with the
\* event set the loop is left
WorkerCheckStop(w) ==
    /\ workers[w].pc = "loop"
    /\ workers' = [workers EXCEPT ![w].pc = IF recording_stop_event THEN "close"
                                                                    ELSE "get",
                                  ![w].status = FALSE]
    /\ UNCHANGED <<main, keys, recording, settings, processing_lock, last_hotkey_time,
                   now, disp, subs, clipboard>>

\* audio_recording_worker, lines 147-151: a block from the queue is appended
\* to the list the thread took append from, or the queue stayed empty for
\* 0.1 s
WorkerGet(w) ==
    /\ workers[w].pc = "get"
    /\ \/ /\ workers[w].n < MaxBlocks
          /\ \E status \in BOOLEAN :
                LET block == SdCallback(Block(w, workers[w].n + 1), status)
                IN  /\ audio_frames' = IF workers[w].stale THEN audio_frames
                                       ELSE Append(audio_frames, block)
                    /\ captured' = IF w = NWorkers THEN Append(captured, block)
                                                   ELSE captured
                    /\ workers' = [workers EXCEPT ![w].pc = "loop",
                                                  ![w].n = @ + 1,
                                                  ![w].status = status,
                                                  ![w].stale = FALSE]
       \/ /\ workers' = [workers EXCEPT ![w].pc = "loop", ![w].stale = FALSE]
          /\ UNCHANGED <<audio_frames, captured>>
    /\ UNCHANGED <<main, keys, is_recording, recording_thread, recording_stop_event,
                   settings, processing_lock, last_hotkey_time, now, disp, subs,
                   clipboard>>

\* audio_recording_worker, lines 144 and 160-161: the stream is closed on
\* leaving the `with` block and the thread ends
WorkerClose(w) ==
    /\ workers[w].pc = "close"
    /\ workers' = [workers EXCEPT ![w] = Ended(@)]
    /\ UNCHANGED <<main, keys, recording, settings, processing_lock, last_hotkey_time,
                   now, disp, subs, clipboard>>

\* audio_recording_worker, lines 141-156: a hard device error, raised while
\* the stream is opened, read or closed
WorkerRaise(w) ==
    /\ workers[w].pc \in {"open", "get", "close"}
    /\ workers' = [workers EXCEPT ![w] = Raised(@)]
    /\ UNCHANGED <<main, keys, recording, settings, processing_lock, last_hotkey_time,
                   now, disp, subs, clipboard>>

\* lines 158-159 without the `with processing_lock:`
WorkerAcquireSkipped(w) ==
    /\ workers[w].pc = "except_lock"
    /\ workers' = [workers EXCEPT ![w].pc = "reset"]
    /\ UNCHANGED <<main, keys, recording, settings, processing_lock, last_hotkey_time,
                   now, disp, subs, clipboard>>

\* audio_recording_worker, line 158: `with processing_lock:` entered
WorkerAcquire(w) ==
    /\ workers[w].pc = "except_lock"
    /\ processing_lock = Free
    /\ processing_lock' = WorkerThread(w)
    /\ workers' = [workers EXCEPT ![w].pc = "reset"]
    /\ UNCHANGED <<main, keys, recording, settings, last_hotkey_time, now, disp, subs,
                   clipboard>>

\* lines 159-161 without the assignment of line 159
WorkerResetSkipped(w) ==
    /\ workers[w].pc = "reset"
    /\ processing_lock' = Free
    /\ workers' = [workers EXCEPT ![w] = Ended(@)]
    /\ UNCHANGED <<main, keys, recording, settings, last_hotkey_time, now, disp, subs,
                   clipboard>>

\* audio_recording_worker, lines 159-161, holding the lock
WorkerReset(w) ==
    /\ workers[w].pc = "reset"
    /\ is_recording' = FALSE
    /\ processing_lock' = Free
    /\ workers' = [workers EXCEPT ![w] = Ended(@)]
    /\ UNCHANGED <<main, keys, audio_frames, recording_thread, recording_stop_event,
                   captured, settings, last_hotkey_time, now, disp, subs,
                   clipboard>>

\* -------------------------------------------------------- submission thread
Exceptions == {"PermissionDenied", "InvalidArgument", "NotFound",
               "ResourceExhausted", "Exception"}

\* submit_audio_to_gemini, lines 280-294: the except clause an exception
\* reaches, by the error it reports
ErrorKind(e) ==
    CASE e = "PermissionDenied" -> "PermissionDenied"
      [] e \in {"InvalidArgument", "NotFound"} -> "InvalidModelOrArgument"
      [] e = "ResourceExhausted" -> "QuotaExceeded"
      [] OTHER -> "TransportOrUnknown"

\* submit_audio_to_gemini, lines 282, 286, 290 and 294: the notification an
\* except clause shows
ErrorShown(kind) ==
    [title |-> IF kind = "TransportOrUnknown" THEN "Unknown Gemini Error"
                                               ELSE "Gemini API Error",
     msg |-> <<>>]

\* what generate_content returns: parts or none, a block reason or none
Responses == [parts : BOOLEAN, block_reason : BOOLEAN]

\* lines 255-266 without the test of the block reason
EmptyKindNoReason(resp) == "EmptyResponse"

\* submit_audio_to_gemini, lines 255-266: an empty response is reported as
\* blocked when it carries a block reason, as empty otherwise
EmptyKind(resp) ==
    IF resp.block_reason THEN "BlockedContent" ELSE "EmptyResponse"

\* response.text of a response with parts, and str.strip()
RawText == <<" ", "H", "i", " ">>
RECURSIVE LStrip(_)
LStrip(t) == IF t /= <<>> /\ Head(t) = " " THEN LStrip(Tail(t)) ELSE t
RECURSIVE RStrip(_)
RStrip(t) ==
    IF t /= <<>> /\ t[Len(t)] = " " THEN RStrip(SubSeq(t, 1, Len(t) - 1)) ELSE t
\* line 268 with lstrip() for strip()
StripLeft(t) == LStrip(t)

\* str.strip(), line 268
Strip(t) == RStrip(LStrip(t))

\* lines 239-243 with the upload made under processing_lock and the lock kept
SubUploadLocked(s) ==
    /\ subs[s].pc = "upload"
    /\ processing_lock = Free
    /\ processing_lock' = <<"sub", s>>
    /\ \/ subs' = [subs EXCEPT ![s].pc = "generate", ![s].uploaded = TRUE,
                               ![s].file = <<>>]
       \/ \E e \in Exceptions :
             subs' = [subs EXCEPT ![s] =
                         [NoSub EXCEPT !.pc = "finally", !.result = ErrorKind(e),
                                       !.shown = ErrorShown(ErrorKind(e))]]
    /\ UNCHANGED <<main, keys, recording, settings, last_hotkey_time,
                   now, disp, workers, clipboard>>

\* submit_audio_to_gemini, lines 238-243: the upload of the file
SubUpload(s) ==
    /\ subs[s].pc = "upload"
    /\ \/ subs' = [subs EXCEPT ![s].pc = "generate", ![s].uploaded = TRUE,
                               ![s].file = <<>>]
       \/ \E e \in Exceptions :
             subs' = [subs EXCEPT ![s] =
                         [NoSub EXCEPT !.pc = "finally", !.result = ErrorKind(e),
                                       !.shown = ErrorShown(ErrorKind(e))]]
    /\ UNCHANGED <<main, keys, recording, settings, processing_lock, last_hotkey_time,
                   now, disp, workers, clipboard>>

\* submit_audio_to_gemini, lines 245-246: the model and the prompt the
\* generation uses
SettingsUsed(sub, model_name, prompt_mode) ==
    [sub EXCEPT !.model = model_name, !.prompt = PROMPTS[prompt_mode],
                !.stop_model = "none", !.stop_mode = "none"]

\* submit_audio_to_gemini, lines 245-268: the model and the prompt are read
\* from the globals, then generation
SubGenerate(s) ==
    /\ subs[s].pc = "generate"
    /\ LET sub == SettingsUsed(subs[s], current_model_name, current_prompt_mode)
       IN  \/ \E e \in Exceptions :
                 subs' = [subs EXCEPT ![s] =
                             [sub EXCEPT !.pc = "finally", !.result = ErrorKind(e),
                                         !.shown = ErrorShown(ErrorKind(e))]]
           \/ \E resp \in Responses :
                 subs' = [subs EXCEPT ![s] =
                             IF ~resp.parts
                             THEN [sub EXCEPT !.pc = "finally",
                                              !.result = EmptyKind(resp),
                                              !.reason = IF resp.block_reason
                                                         THEN "yes" ELSE "no",
                                              !.shown = [title |-> "Gemini Error",
                                                         msg |-> <<>>]]
                             ELSE [sub EXCEPT !.pc = "clipboard",
                                              !.text = Strip(RawText)]]
    /\ UNCHANGED <<main, keys, recording, settings, processing_lock, last_hotkey_time,
                   now, disp, workers, clipboard>>

\* lines 272-278 without the inner try: the clipboard failure reaches the
\* last except clause and the text is not shown
SubClipboardEscalates(s) ==
    /\ subs[s].pc = "clipboard"
    /\ \/ /\ clipboard' = subs[s].text
          /\ subs' = [subs EXCEPT ![s].pc = "finally", ![s].result = "Success",
                                  ![s].shown = [title |-> "Gemini Response",
                                                msg |-> subs[s].text]]
       \/ /\ subs' = [subs EXCEPT ![s].pc = "finally",
                                  ![s].result = "TransportOrUnknown",
                                  ![s].shown = ErrorShown("TransportOrUnknown")]
          /\ UNCHANGED clipboard
    /\ UNCHANGED <<main, keys, recording, settings, processing_lock, last_hotkey_time,
                   now, disp, workers>>

\* submit_audio_to_gemini, lines 272-278: the text goes to the clipboard and
\* into a notification, or into the notification alone
SubClipboard(s) ==
    /\ subs[s].pc = "clipboard"
    /\ \/ /\ clipboard' = subs[s].text
          /\ subs' = [subs EXCEPT ![s].pc = "finally", ![s].result = "Success",
                                  ![s].shown = [title |-> "Gemini Response",
                                                msg |-> subs[s].text]]
       \/ /\ subs' = [subs EXCEPT ![s].pc = "finally",
                                  ![s].result = "ClipboardError",
                                  ![s].shown = [title |-> "AI Response (Clipboard Error)",
                                                msg |-> subs[s].text]]
          /\ UNCHANGED clipboard
    /\ UNCHANGED <<main, keys, recording, settings, processing_lock, last_hotkey_time,
                   now, disp, workers>>

\* the delete placed at the end of the try block instead of the finally
\* clause: it is reached on success only
DeleteAttemptsOnSuccess(sub) ==
    IF sub.uploaded /\ sub.result = "Success" THEN 1 ELSE 0

\* submit_audio_to_gemini, line 296: the delete is attempted for a file that
\* was uploaded
DeleteAttempts(sub) == IF sub.uploaded THEN 1 ELSE 0

\* submit_audio_to_gemini, lines 295-302: the finally clause; the delete
\* succeeds or its failure is logged, and the thread ends
SubFinally(s) ==
    /\ subs[s].pc = "finally"
    /\ \E failed \in BOOLEAN :
          /\ failed => DeleteAttempts(subs[s]) > 0
          /\ subs' = [subs EXCEPT ![s] =
                         [NoSub EXCEPT !.pc = "done",
                                       !.uploaded = subs[s].uploaded,
                                       !.deletes = DeleteAttempts(subs[s]),
                                       !.delete_failed = failed]]
    /\ UNCHANGED <<main, keys, recording, settings, processing_lock, last_hotkey_time,
                   now, disp, workers, clipboard>>

\* ------------------------------------------------------------ main thread
\* __main__, lines 431-445: the wait loop ends, because the listener died or
\* an exception reached the main thread, and the finally block stops the
\* listener; a callback already running goes on
MainShutdown ==
    /\ main.pc = "running"
    /\ main' = [main EXCEPT !.pc = "check"]
    /\ UNCHANGED <<keys, recording, settings, processing_lock, last_hotkey_time,
                   now, disp, workers, subs, clipboard>>

\* line 447: is_recording read without the lock
MainCheck ==
    /\ main.pc = "check"
    /\ main' = IF is_recording
               THEN [main EXCEPT !.pc = "signal", !.saw_recording = TRUE]
               ELSE [main EXCEPT !.pc = "exited"]
    /\ UNCHANGED <<keys, recording, settings, processing_lock, last_hotkey_time,
                   now, disp, workers, subs, clipboard>>

\* line 449: recording_stop_event.set()
MainSignal ==
    /\ main.pc = "signal"
    /\ recording_stop_event' = TRUE
    /\ main' = [main EXCEPT !.pc = "join_check", !.signalled = TRUE]
    /\ UNCHANGED <<keys, is_recording, audio_frames, recording_thread, captured,
                   settings, processing_lock, last_hotkey_time, now, disp,
                   workers, subs, clipboard>>

\* line 450 with the join of line 451 left out
MainJoinCheckSkipsJoin ==
    /\ main.pc = "join_check"
    /\ main' = [main EXCEPT !.pc = "exited",
                            !.saw_alive = recording_thread /= 0
                                          /\ Alive(recording_thread)]
    /\ UNCHANGED <<keys, recording, settings, processing_lock, last_hotkey_time,
                   now, disp, workers, subs, clipboard>>

\* line 450: the join is made when recording_thread names a live thread;
\* otherwise the block ends and the process exits.  recording_thread is
\* loaded twice: when stop clears it between the loads the call of is_alive
\* raises, and the process exits without a join as it does here when the
\* variable is None
MainJoinCheck ==
    /\ main.pc = "join_check"
    /\ main' = IF recording_thread /= 0 /\ Alive(recording_thread)
               THEN [main EXCEPT !.pc = "joining", !.saw_alive = TRUE]
               ELSE [main EXCEPT !.pc = "exited"]
    /\ UNCHANGED <<keys, recording, settings, processing_lock, last_hotkey_time,
                   now, disp, workers, subs, clipboard>>

\* line 451: join(timeout=1.0) returns when a capture thread has ended (the
\* thread joined is the one line 450 loaded, which stop may have replaced
\* by None since) or when the second has passed; the process exits
MainJoin ==
    /\ main.pc = "joining"
    /\ \/ /\ \E w \in Workers : workers[w].pc = "done"
          /\ main' = [main EXCEPT !.pc = "exited", !.joined = "returned"]
       \/ main' = [main EXCEPT !.pc = "exited", !.joined = "timed_out"]
    /\ UNCHANGED <<keys, recording, settings, processing_lock, last_hotkey_time,
                   now, disp, workers, subs, clipboard>>

\* --------------------------------------------------------- specification
TriggerPress == OnKeyPress("f9")
OtherPress == \E key \in Keys \ {"f9"} : OnKeyPress(key)
KeyRelease == \E key \in Keys : OnKeyRelease(key)
CallRecording == \E op \in {"start", "stop"} : DirectCall(op)
CallCycle == \E op \in {"prompt", "model"} : DirectCall(op)
ClearFrames == \E w \in Workers : WorkerClearFrames(w)
ClearEvent == \E w \in Workers : WorkerClearEvent(w)
OpenStream == \E w \in Workers : WorkerOpenStream(w)
CheckStop == \E w \in Workers : WorkerCheckStop(w)
Get == \E w \in Workers : WorkerGet(w)
Close == \E w \in Workers : WorkerClose(w)
Raise == \E w \in Workers : WorkerRaise(w)
ErrorAcquire == \E w \in Workers : WorkerAcquire(w)
ErrorReset == \E w \in Workers : WorkerReset(w)
Upload == \E s \in Subs : SubUpload(s)
Generate == \E s \in Subs : SubGenerate(s)
Clipboard == \E s \in Subs : SubClipboard(s)
Finally == \E s \in Subs : SubFinally(s)

\* The listener thread delivers key events one at a time, and the clock
\* bounds how many trigger presses a run accepts.  The specifications below
\* take the steps of one part of the program each.

\* the recording session: the trigger key without modifiers, start and
\* stop, and the capture threads
NextRecording ==
    \/ TriggerPress \/ Return \/ DispAcquire
    \/ StartAudioRecording \/ StopSignal \/ StopJoin \/ StopJoinTimeout \/ StopFinal
    \/ ClearFrames \/ ClearEvent \/ OpenStream \/ CheckStop \/ Get \/ Close
    \/ Raise \/ ErrorAcquire \/ ErrorReset

\* the submission pipeline: every key and the two toggles, recording
\* sessions whose capture thread ends in time, and the submission threads
NextSubmission ==
    \/ TriggerPress \/ OtherPress \/ KeyRelease \/ Return \/ DispAcquire
    \/ StartAudioRecording \/ StopSignal \/ StopJoin \/ StopFinal
    \/ CyclePromptMode \/ CycleAiModel
    \/ ClearFrames \/ ClearEvent \/ OpenStream \/ CheckStop \/ Get \/ Close
    \/ Upload \/ Generate \/ Clipboard \/ Finally

\* the hotkey dispatcher: every key and the two toggles, with recording
\* sessions whose capture thread ends in time or fails
NextKeys ==
    \/ TriggerPress \/ OtherPress \/ KeyRelease \/ Return \/ DispAcquire
    \/ StartAudioRecording \/ StopSignal \/ StopJoin \/ StopFinal
    \/ CyclePromptMode \/ CycleAiModel
    \/ ClearFrames \/ ClearEvent \/ OpenStream \/ CheckStop \/ Get \/ Close
    \/ Raise \/ ErrorAcquire \/ ErrorReset

\* start and stop called directly, any number of times, with capture
\* threads that end in time or fail
NextApi ==
    \/ CallRecording \/ Return \/ DispAcquire
    \/ StartAudioRecording \/ StopSignal \/ StopJoin \/ StopFinal
    \/ ClearFrames \/ ClearEvent \/ OpenStream \/ CheckStop \/ Get \/ Close
    \/ Raise \/ ErrorAcquire \/ ErrorReset

\* shutdown: recording sessions with the trigger key, then the finally block
\* of the main thread.  Keys are delivered while the listener runs; the
\* daemon threads run until the process exits
NextShutdown ==
    \/ /\ main.pc = "running"
       /\ TriggerPress
    \/ /\ main.pc /= "exited"
       /\ \/ Return \/ DispAcquire
          \/ StartAudioRecording \/ StopSignal \/ StopJoin \/ StopJoinTimeout
          \/ StopFinal
          \/ ClearFrames \/ ClearEvent \/ OpenStream \/ CheckStop \/ Get \/ Close
    \/ MainShutdown \/ MainCheck \/ MainSignal \/ MainJoinCheck \/ MainJoin

\* one step of the listener thread inside a callback, with the capture
\* thread ending within the join's timeout (line 194) and write_wav
\* succeeding (line 217)
DispStep ==
    \/ Return \/ DispAcquire \/ StartAudioRecording \/ StopSignal
    \/ StopJoin
    \/ StopFinal /\ disp'.note /= "Processing Error"

\* one step of capture thread w with the audio device working
WorkerStep(w) ==
    \/ WorkerClearFrames(w) \/ WorkerClearEvent(w) \/ WorkerOpenStream(w)
    \/ WorkerCheckStop(w) \/ WorkerGet(w) \/ WorkerClose(w)

\* one step of submission s with the upload, the generation (a response
\* with parts) and the clipboard succeeding
SubStep(s) ==
    \/ SubUpload(s) /\ subs'[s].pc = "generate"
    \/ SubGenerate(s) /\ subs'[s].pc = "clipboard"
    \/ SubClipboard(s) /\ subs'[s].result = "Success"
    \/ SubFinally(s)

\* end to end with every collaborator succeeding: the trigger key without
\* modifiers, the recording sessions and their submissions
NextE2E ==
    \/ TriggerPress
    \/ DispStep
    \/ \E w \in Workers : WorkerStep(w)
    \/ \E s \in Subs : SubStep(s)

\* every thread that can take a step is scheduled; the user is not obliged
\* to press a key
FairE2E ==
    /\ WF_vars(DispStep)
    /\ \A w \in Workers : WF_vars(WorkerStep(w))
    /\ \A s \in Subs : WF_vars(SubStep(s))

\* the stop signal: recording sessions with the trigger key, the join of
\* line 194 returning or timing out, and the capture threads with the audio
\* device working
NextStopSignal ==
    \/ TriggerPress
    \/ DispStep \/ StopJoinTimeout
    \/ \E w \in Workers : WorkerStep(w)

\* the listener thread and every capture thread are scheduled when they can
\* take a step; the user is not obliged to press a key
FairStopSignal ==
    /\ WF_vars(DispStep \/ StopJoinTimeout)
    /\ \A w \in Workers : WF_vars(WorkerStep(w))

\* one step of the listener thread inside any of its handlers
HandlerStep ==
    \/ Return \/ DispAcquire \/ StartAudioRecording \/ StopSignal \/ StopJoin
    \/ StopFinal \/ CyclePromptMode \/ CycleAiModel

\* one step of capture thread w on its error path (lines 158-161)
ErrorStep(w) == WorkerAcquire(w) \/ WorkerReset(w)

\* the processing lock: every key and the two toggles, capture threads that
\* end in time or fail, and the submissions
NextLock == NextKeys \/ \E s \in Subs : SubStep(s)

\* the listener thread and every capture thread are scheduled when they can
\* take a step; a device error and a key press are not obliged to happen
FairLock ==
    /\ WF_vars(HandlerStep)
    /\ \A w \in Workers : WF_vars(WorkerStep(w) \/ ErrorStep(w))

Next == NextRecording \/ NextSubmission \/ NextKeys \/ NextApi \/ CallCycle
           \/ NextShutdown \/ NextE2E \/ NextStopSignal \/ NextLock

Spec == Init /\ [][Next]_vars
SpecRecording == Init /\ [][NextRecording]_vars
SpecSubmission == Init /\ [][NextSubmission]_vars
SpecKeys == Init /\ [][NextKeys]_vars
SpecApi == Init /\ [][NextApi]_vars
SpecShutdown == Init /\ [][NextShutdown]_vars
SpecE2E == Init /\ [][NextE2E]_vars /\ FairE2E
SpecStopSignal == Init /\ [][NextStopSignal]_vars /\ FairStopSignal
SpecLock == Init /\ [][NextLock]_vars /\ FairLock

\* ------------------------------------------------------------- properties
\* steps of the dispatcher thread
TriggerHandled == disp.pc = "idle" /\ disp'.pc /= "idle" /\ disp'.caller = "on_key_press"
StartReturns == disp.pc = "start_body" /\ disp'.pc = "return"
StopFinalises == disp.pc = "stop_final" /\ disp'.pc = "return"

\* the threads a step starts
StartedWorkers == {w \in Workers : workers[w].pc = "none" /\ workers'[w].pc /= "none"}
StartedSubs == {s \in Subs : subs[s].pc = "none" /\ subs'[s].pc /= "none"}

\* the capture threads inside their capture loop
Capturing == {w \in Workers : workers[w].pc \in {"loop", "get"}}

\* C1: at every moment at most one capture thread is alive and appending to
\* the accumulating audio sequence, whatever the interleaving of start, stop
\* (with a join that times out) and capture failure.
C1_AtMostOneCaptureTask == Cardinality(Capturing) <= 1

\* C2: a stop on an Active session whose capture thread appended N >= 1
\* blocks hands the submission the ordered concatenation of exactly those N
\* blocks and leaves the shared audio sequence empty (the step where the
\* save itself raises is left aside).
C2_StopHandsOffSessionBlocks ==
    [][(StopFinalises /\ Len(captured) >= 1 /\ disp'.note /= "Processing Error")
         => /\ is_recording' = FALSE
            /\ \E s \in StartedSubs : subs'[s].file = NpConcatenate(captured)
            /\ audio_frames' = <<>>]_vars

\* C3: the model and the prompt a submission generates with are those in
\* effect when stop finalised its recording, whatever is toggled afterwards.
C3_SubmissionUsesStopTimeSettings ==
    [][\A s \in Subs :
          (subs[s].pc = "generate" /\ subs'[s].pc /= "generate")
            => /\ subs'[s].model = subs[s].stop_model
               /\ subs'[s].prompt = PROMPTS[subs[s].stop_mode]]_vars

\* C4, as stated: once a press has been accepted, a trigger press that comes
\* less than the threshold after the previous trigger press is ignored.
C4_PressSoonAfterPreviousIgnored ==
    [][(TriggerHandled /\ last_hotkey_time > 0 /\ now' - now < DEBOUNCE)
         => disp'.op = "debounced"]_vars

\* C4, amended: a trigger press is ignored exactly when it comes less than
\* the threshold after the last accepted press, and the handler of an ignored
\* press changes neither the recording state, the model, the prompt mode nor
\* the debounce timestamp, and starts no thread.
C4_PressSoonAfterAcceptedIgnored ==
    /\ [][TriggerHandled =>
            /\ (disp'.op = "debounced") <=> (now' - last_hotkey_time < DEBOUNCE)
            /\ disp'.op = "debounced" =>
                  /\ disp'.pc = "return"
                  /\ UNCHANGED <<recording, settings, last_hotkey_time, workers, subs>>]_vars
    /\ [][(disp.op = "debounced" /\ disp' /= disp) =>
            /\ disp' = IdleDisp
            /\ UNCHANGED <<recording, settings, last_hotkey_time, workers, subs>>]_vars

\* a press during a recording, one tick after the press that started it, has
\* been ignored
C4_BurstPressIgnored ==
    /\ disp.pc = "return" /\ disp.op = "debounced"
    /\ is_recording
    /\ disp.current_time = last_hotkey_time + 1

\* C5: start on an Idle session returns True, sets the recording flag and
\* spawns exactly one capture thread; start on an Active session returns
\* False and changes nothing.
C5_StartContract ==
    [][StartReturns =>
         IF ~is_recording
         THEN /\ disp'.ret = "True"
              /\ is_recording' = TRUE
              /\ Cardinality(StartedWorkers) = 1
              /\ \A w \in Workers \ StartedWorkers : workers'[w] = workers[w]
              /\ \A w \in StartedWorkers : recording_thread' = w
         ELSE /\ disp'.ret = "False"
              /\ UNCHANGED <<recording, settings, workers, subs, last_hotkey_time>>]_vars

\* start has been refused on an Active session
C5_StartOnActiveRefused ==
    /\ disp.pc = "return" /\ disp.op = "start" /\ disp.ret = "False"
    /\ is_recording

\* C6: every stop on an Active session ends with the recording flag False
\* and the accumulated audio handed off, whether the join returned with the
\* thread ended or timed out: either way stop goes on to take the lock again
\* and finalise, and unless the save itself raises the submission gets the
\* concatenation of what had accumulated.
C6_StopEndsIdleAndHandsOff ==
    /\ [][(disp.pc = "stop_join" /\ disp' /= disp) => disp'.pc = "stop_relock"]_vars
    /\ [][(disp.pc = "stop_relock" /\ disp' /= disp) => disp'.pc = "stop_final"]_vars
    /\ [][(disp.pc = "stop_final" /\ disp' /= disp) =>
            /\ disp'.pc = "return" /\ disp'.ret = "True"
            /\ is_recording' = FALSE
            /\ (audio_frames /= <<>> /\ disp'.note /= "Processing Error") =>
                  /\ \E s \in StartedSubs : subs'[s].file = NpConcatenate(audio_frames)
                  /\ audio_frames' = <<>>]_vars

\* a stop whose join timed out has returned with the session Idle and the
\* audio saved and submitted
C6_StopAfterTimeoutHandedOff ==
    /\ disp.pc = "return" /\ disp.op = "stop" /\ disp.timed_out
    /\ disp.note = "Recording Saved"
    /\ ~is_recording
    /\ \E s \in Subs : subs[s].pc = "upload" /\ subs[s].file /= <<>>

\* C7, as stated: every submission attempts the remote delete exactly once,
\* whatever its outcome, upload failure included.
C7_DeleteOncePerInvocation ==
    \A s \in Subs : subs[s].pc = "done" => subs[s].deletes = 1

\* C7, amended: a submission attempts the remote delete exactly once when its
\* upload succeeded, whatever the outcome of generation and of the clipboard,
\* and not at all when the upload failed; the delete is attempted in the
\* finally clause only, every outcome leads there, and a failing delete ends
\* the thread like a successful one.
C7_DeleteOncePerUpload ==
    /\ [][\A s \in Subs :
            (subs[s].pc \in {"upload", "generate", "clipboard"} /\ subs'[s] /= subs[s])
              => /\ subs'[s].pc \in {"generate", "clipboard", "finally"}
                 /\ subs'[s].deletes = 0]_vars
    /\ [][\A s \in Subs :
            (subs[s].pc = "finally" /\ subs'[s] /= subs[s])
              => /\ subs'[s].pc = "done"
                 /\ subs'[s].deletes = (IF subs[s].uploaded THEN 1 ELSE 0)
                 /\ subs'[s].delete_failed => subs[s].uploaded]_vars
    /\ [][\A s \in Subs : subs[s].pc = "done" => subs'[s] = subs[s]]_vars

\* a submission whose generation failed has ended after one delete attempt,
\* which failed too
C7_DeleteFailedAfterUpload ==
    \E s \in Subs :
        /\ subs[s].pc = "done" /\ subs[s].uploaded
        /\ subs[s].deletes = 1 /\ subs[s].delete_failed

\* C8: a stop on an Active session whose capture thread appended no block
\* leaves the session Idle, reports the empty recording, writes no file and
\* starts no submission.
C8_StopWithoutBlocksReportsEmpty ==
    [][(StopFinalises /\ captured = <<>>)
         => /\ is_recording' = FALSE
            /\ disp'.note = "Recording Error"
            /\ StartedSubs = {}]_vars

\* C9: a stop on an Idle session returns False and changes nothing: the stop
\* event is not set, nothing is joined, the recording flag, the audio
\* sequence and the settings stay, no submission is started, and the
\* debounce timestamp is not updated when the handler returns.
C9_StopOnIdleRefused ==
    /\ [][(disp.pc = "stop_body" /\ ~is_recording /\ disp' /= disp) =>
            /\ disp'.pc = "return" /\ disp'.ret = "False"
            /\ UNCHANGED <<recording, settings, workers, subs, last_hotkey_time>>]_vars
    /\ [][(disp.pc = "return" /\ disp.op = "stop" /\ disp.ret = "False"
           /\ disp' /= disp) =>
            /\ disp' = IdleDisp
            /\ UNCHANGED <<recording, settings, workers, subs, last_hotkey_time>>]_vars

\* the trigger key has called stop on a session that was Idle by the time
\* stop held the lock, and stop has returned False
C9_StopOnIdleReturned ==
    /\ disp.pc = "return" /\ disp.op = "stop" /\ disp.ret = "False"
    /\ disp.caller = "on_key_press"
    /\ ~is_recording

\* C10: a capture thread that hits a hard device error appends nothing more,
\* shows the failure notification, takes the lock and resets the recording
\* flag before it ends; a block that comes with a status warning is appended
\* like any other, the recording flag stays and the thread goes on with its
\* loop.
C10_DeviceErrorResetsWarningDoesNot ==
    /\ [][\A w \in Workers :
            (workers[w].pc \in {"open", "get", "close"} /\ workers'[w].pc = "except_lock")
              => /\ workers'[w].note = "Recording Error"
                 /\ UNCHANGED <<audio_frames, is_recording>>]_vars
    /\ [][\A w \in Workers :
            (workers[w].pc = "except_lock" /\ workers'[w] /= workers[w])
              => /\ workers'[w].pc = "reset"
                 /\ UNCHANGED audio_frames]_vars
    /\ [][\A w \in Workers :
            (workers[w].pc = "reset" /\ workers'[w] /= workers[w])
              => /\ workers'[w].pc = "done"
                 /\ workers'[w].note = "Recording Error"
                 /\ is_recording' = FALSE
                 /\ UNCHANGED audio_frames]_vars
    /\ [][\A w \in Workers :
            (workers[w].pc = "get" /\ workers'[w].pc = "loop" /\ workers'[w].status)
              => /\ is_recording' = is_recording
                 /\ workers'[w].n = workers[w].n + 1
                 /\ ~workers[w].stale =>
                       audio_frames' = Append(audio_frames, Block(w, workers'[w].n))]_vars
    /\ [][\A w \in Workers :
            (workers[w].pc = "loop" /\ workers[w].status /\ workers'[w] /= workers[w])
              => workers'[w].pc \in {"get", "close"}]_vars

\* a capture thread has ended after a hard device error, with the failure
\* notification shown and the session Idle
C10_CaptureFailedAndReset ==
    \E w \in Workers :
        /\ workers[w].pc = "done" /\ workers[w].note = "Recording Error"
        /\ ~is_recording

\* C11: a trigger press that passes the debounce test is classified by the
\* modifier flags at that instant: shift alone calls the prompt toggle,
\* which changes the prompt mode and nothing else; ctrl alone calls the model
\* toggle, which changes the model and nothing else; no modifier calls start
\* on an Idle session and stop on a recording one; shift and ctrl together
\* call nothing and change nothing.  A submission generates with the prompt
\* text of the mode then in effect, the Transcribe text after a toggle from
\* the initial Assistant mode.
C11_PressClassifiedByModifiers ==
    /\ [][(TriggerHandled /\ disp'.op /= "debounced") =>
            /\ shift_pressed /\ ~ctrl_pressed => disp'.op = "prompt"
            /\ ctrl_pressed /\ ~shift_pressed => disp'.op = "model"
            /\ ~shift_pressed /\ ~ctrl_pressed =>
                  disp'.op = (IF is_recording THEN "stop" ELSE "start")
            /\ shift_pressed /\ ctrl_pressed =>
                  disp'.op = "ignored" /\ disp'.pc = "return" /\ disp'.ret = "False"
            /\ UNCHANGED <<keys, recording, settings, workers, subs, clipboard,
                           last_hotkey_time>>]_vars
    /\ [][(disp.op = "ignored" /\ disp' /= disp) =>
            /\ disp' = IdleDisp
            /\ UNCHANGED <<keys, recording, settings, workers, subs, clipboard,
                           last_hotkey_time>>]_vars
    /\ [][(disp.op = "prompt" /\ disp'.pc = "return" /\ disp.pc /= "return") =>
            /\ current_prompt_mode' /= current_prompt_mode
            /\ current_prompt_mode' \in {PROMPT_MODE_ASSISTANT, PROMPT_MODE_TRANSCRIBE}
            /\ UNCHANGED <<keys, recording, current_model_name, workers, subs,
                           clipboard, last_hotkey_time>>]_vars
    /\ [][(disp.op = "model" /\ disp'.pc = "return" /\ disp.pc /= "return") =>
            /\ current_model_name' /= current_model_name
            /\ current_model_name' \in {MODEL_PRO, MODEL_FLASH}
            /\ UNCHANGED <<keys, recording, current_prompt_mode, workers, subs,
                           clipboard, last_hotkey_time>>]_vars
    /\ [][current_prompt_mode' /= current_prompt_mode => disp.op = "prompt"]_vars
    /\ [][current_model_name' /= current_model_name => disp.op = "model"]_vars
    /\ [][is_recording' /= is_recording => disp.op \in {"start", "stop"}]_vars
    /\ [][\A s \in Subs :
            (subs[s].pc = "generate" /\ subs'[s].pc /= "generate") =>
               subs'[s].prompt = (IF current_prompt_mode = PROMPT_MODE_TRANSCRIBE
                                  THEN "transcribe-prompt" ELSE "assistant-prompt")]_vars

\* after one press with shift held, which left the mode at Transcribe, a
\* recording has been submitted and generates with the Transcribe text
C11_TranscribeSubmission ==
    /\ current_prompt_mode = PROMPT_MODE_TRANSCRIBE
    /\ current_model_name = DEFAULT_MODEL
    /\ \E s \in Subs : subs[s].pc = "clipboard" /\ subs[s].prompt = "transcribe-prompt"

\* C12: the debounce timestamp changes only when the handler of a trigger
\* press returns, and then exactly when the press performed an action (its
\* call returned True): after an unsupported combination or a failed start or
\* stop it stays, so the next press is tested against the older timestamp.
C12_StampIffActionPerformed ==
    /\ [][(disp.pc = "return" /\ disp' /= disp) =>
            last_hotkey_time' =
               (IF disp.caller = "on_key_press" /\ disp.op \in {"start", "stop", "prompt", "model"}
                   /\ disp.ret = "True"
                THEN disp.current_time ELSE last_hotkey_time)]_vars
    /\ [][last_hotkey_time' /= last_hotkey_time => disp.pc = "return"]_vars
    /\ [][(TriggerHandled /\ now' - last_hotkey_time >= DEBOUNCE) =>
            disp'.op /= "debounced"]_vars
    /\ [](disp.op \in {"ignored", "debounced"} => disp.ret /= "True")

\* a press that performed no action has returned: the clock is a threshold
\* or more past the timestamp of the last accepted press, which the press at
\* that clock reading did not move
C12_NoOpPressLeftStamp ==
    /\ disp.pc = "idle"
    /\ last_hotkey_time > 0
    /\ now - last_hotkey_time >= DEBOUNCE

\* C16: the recording flag and the two settings are written only by the
\* thread that holds the processing lock: the dispatcher inside start, stop
\* and the two toggles, a capture thread inside its error reset; a thread is
\* at one of those places exactly while it holds the lock.
C16_WritesUnderLock ==
    /\ [][(is_recording' /= is_recording \/ settings' /= settings) =>
            /\ processing_lock /= Free
            /\ processing_lock' = Free
            /\ processing_lock = Disp =>
                  /\ disp.pc \in {"start_body", "stop_final", "prompt_body", "model_body"}
                  /\ disp'.pc = "return"
            /\ \A w \in Workers : processing_lock = WorkerThread(w) =>
                  /\ workers[w].pc = "reset" /\ workers'[w].pc = "done"
                  /\ disp' = disp]_vars
    /\ [](processing_lock = Disp <=>
            disp.pc \in {"start_body", "stop_body", "stop_final", "prompt_body",
                         "model_body"})
    /\ [](\A w \in Workers : processing_lock = WorkerThread(w) <=> workers[w].pc = "reset")

\* a failed capture thread holds the lock for its reset of the recording
\* flag while the dispatcher waits for the lock to toggle a setting
C16_ResetHoldsLockToggleWaits ==
    /\ is_recording
    /\ disp.pc \in {"prompt_lock", "model_lock"}
    /\ \E w \in Workers : workers[w].pc = "reset" /\ processing_lock = WorkerThread(w)

\* C17: a toggle of the prompt mode moves it to the other of its two values,
\* from which the toggle gives back the value before; the same for the
\* model.  Two toggles in a row return the setting to its original value.
C17_ToggleTwiceReturns ==
    /\ [][(disp.pc = "prompt_body" /\ disp' /= disp) =>
            /\ current_prompt_mode' /= current_prompt_mode
            /\ ToggledMode(current_prompt_mode') = current_prompt_mode]_vars
    /\ [][(disp.pc = "model_body" /\ disp' /= disp) =>
            /\ current_model_name' /= current_model_name
            /\ ToggledModel(current_model_name') = current_model_name]_vars
    /\ [](/\ current_prompt_mode \in {PROMPT_MODE_ASSISTANT, PROMPT_MODE_TRANSCRIBE}
          /\ current_model_name \in {MODEL_PRO, MODEL_FLASH}
          /\ ToggledMode(ToggledMode(current_prompt_mode)) = current_prompt_mode
          /\ ToggledModel(ToggledModel(current_model_name)) = current_model_name)

\* a toggle of the prompt mode has just brought it back to the value it had
\* at the start, with the model toggled away from its own
C17_ModeBackAtDefault ==
    /\ disp.pc = "return" /\ disp.op = "prompt"
    /\ current_prompt_mode = DEFAULT_PROMPT_MODE
    /\ current_model_name /= DEFAULT_MODEL

\* C18: cycle_prompt_mode changes the prompt mode only and cycle_ai_model
\* the model only: the other setting, the recording flag, the capture
\* threads, the stop event and the audio sequence stay as they are, on an
\* Idle session and on a recording one; all else they do is show the
\* notification of the new value and return True.
C18_TogglesIndependent ==
    /\ [][(disp.pc = "prompt_body" /\ disp' /= disp) =>
            /\ disp' = Returned(disp, "True", "Mode Changed")
            /\ UNCHANGED <<current_model_name, is_recording, audio_frames,
                           recording_thread, recording_stop_event, captured,
                           workers, subs, keys, clipboard, last_hotkey_time, now>>]_vars
    /\ [][(disp.pc = "model_body" /\ disp' /= disp) =>
            /\ disp' = Returned(disp, "True", "Model Changed")
            /\ UNCHANGED <<current_prompt_mode, is_recording, audio_frames,
                           recording_thread, recording_stop_event, captured,
                           workers, subs, keys, clipboard, last_hotkey_time, now>>]_vars

\* the model has been toggled during a recording whose capture thread is in
\* its loop with a block appended, the prompt mode toggled before
C18_ModelToggledWhileRecording ==
    /\ disp.pc = "return" /\ disp.op = "model"
    /\ current_prompt_mode /= DEFAULT_PROMPT_MODE
    /\ is_recording /\ audio_frames /= <<>>
    /\ \E w \in Workers : workers[w].pc \in {"loop", "get"}

\* C13: a response without parts that carries a block reason is reported as
\* BlockedContent, one without a block reason as EmptyResponse, never the
\* other way round; either way the submission goes straight to its cleanup
\* and nothing is written to the clipboard.
C13_EmptyResponseKinds ==
    /\ [][\A s \in Subs :
            (subs[s].pc = "generate" /\ subs'[s].reason /= "none") =>
               /\ subs'[s].pc = "finally"
               /\ subs'[s].reason = "yes" => subs'[s].result = "BlockedContent"
               /\ subs'[s].reason = "no" => subs'[s].result = "EmptyResponse"
               /\ subs'[s].shown = [title |-> "Gemini Error", msg |-> <<>>]
               /\ subs'[s].text = <<>>
               /\ clipboard' = clipboard]_vars
    /\ [][\A s \in Subs :
            (subs[s].pc = "generate"
             /\ subs'[s].result \in {"BlockedContent", "EmptyResponse"}) =>
               subs'[s].reason /= "none"]_vars
    /\ [][\A s \in Subs :
            (subs[s].pc = "finally" /\ subs'[s] /= subs[s]) =>
               subs'[s].pc = "done" /\ clipboard' = clipboard]_vars
    /\ [](\A s \in Subs : subs[s].reason /= "none" => subs[s].pc = "finally")

\* an empty response with a block reason has been reported as blocked
\* content, with the clipboard still empty
C13_BlockedReported ==
    /\ clipboard = <<>>
    /\ \E s \in Subs :
          /\ subs[s].pc = "finally" /\ subs[s].reason = "yes"
          /\ subs[s].result = "BlockedContent"

\* C14: when generation succeeded with a non-empty text and the clipboard
\* write fails, the text is still shown to the user in a notification, the
\* clipboard is left as it was, and the outcome is the clipboard error, none
\* of the generation error kinds.
C14_ClipboardFailureShowsText ==
    /\ [][\A s \in Subs :
            (subs[s].pc = "clipboard" /\ subs'[s] /= subs[s]) =>
               /\ subs[s].text /= <<>>
               /\ subs'[s].pc = "finally"
               /\ subs'[s].shown.msg = subs[s].text
               /\ \/ /\ subs'[s].result = "Success"
                     /\ clipboard' = subs[s].text
                  \/ /\ subs'[s].result = "ClipboardError"
                     /\ subs'[s].shown.title = "AI Response (Clipboard Error)"
                     /\ clipboard' = clipboard]_vars
    /\ [](\A s \in Subs :
            subs[s].result = "ClipboardError" =>
               /\ subs[s].pc = "finally"
               /\ subs[s].shown.msg = <<"H", "i">>)

\* the clipboard write has failed and the notification carries the text
C14_TextShownClipboardEmpty ==
    /\ clipboard = <<>>
    /\ \E s \in Subs :
          /\ subs[s].pc = "finally" /\ subs[s].result = "ClipboardError"
          /\ subs[s].shown = [title |-> "AI Response (Clipboard Error)",
                              msg |-> <<"H", "i">>]

\* the submissions between their start and their end
InFlight == {s \in Subs : subs[s].pc \in {"upload", "generate", "clipboard", "finally"}}

\* C15: submissions never block hotkey handling and may overlap: no step of
\* a submission takes or holds the processing lock or touches the recording
\* state, the dispatcher or the settings; with submissions in flight the
\* dispatcher waiting for the lock can take it, and an unmodified trigger
\* press past the debounce interval starts or stops a recording as it would
\* with none in flight.
C15_SubmissionsNeverBlockHotkeys ==
    /\ [][\A s \in InFlight :
            subs'[s] /= subs[s] =>
               UNCHANGED <<processing_lock, disp, recording, settings, keys,
                           last_hotkey_time, workers>>]_vars
    /\ [](processing_lock \in {Free, Disp} \cup {WorkerThread(w) : w \in Workers})
    /\ []((InFlight /= {} /\ disp.pc \in {"start_lock", "stop_lock", "stop_relock",
                                          "prompt_lock", "model_lock"})
             => ENABLED DispAcquire)
    /\ [][(TriggerHandled /\ InFlight /= {} /\ ~shift_pressed /\ ~ctrl_pressed
           /\ ~DebounceIgnored(now', last_hotkey_time)) =>
             disp' = Entered(IF is_recording THEN "stop" ELSE "start",
                             "on_key_press", now')]_vars

\* two submissions are in flight at once, neither past its first step: the
\* second recording was started and stopped by the trigger key while the
\* first submission was in flight
C15_TwoSubmissionsInFlight ==
    /\ InFlight = Subs
    /\ \A s \in Subs : subs[s].pc = "upload" /\ subs[s].file /= <<>>
    /\ disp.pc = "idle"
    /\ ~is_recording

C20_EndToEnd ==
    /\ [][(TriggerHandled /\ NWorkers = 0 /\ last_hotkey_time = 0) =>
             disp' = Entered("start", "on_key_press", now')]_vars
    /\ (disp.pc = "start_lock" /\ NWorkers = 0)
          ~> (is_recording /\ recording_thread = 1 /\ Alive(1))
    /\ (disp.pc = "stop_lock" /\ NWorkers = 1 /\ NSubs = 0
        /\ workers[1].n >= 1 /\ audio_frames /= <<>>)
          ~> (~is_recording /\ subs[1].pc /= "none")
    /\ (disp.pc = "stop_lock" /\ NWorkers = 1 /\ NSubs = 0
        /\ workers[1].n >= 1 /\ audio_frames /= <<>>)
          ~> (clipboard = <<"H", "i">>)

\* the first submission has ended in success and the clipboard holds the
\* text of the response without its surrounding blanks
C20_TextOnClipboard ==
    /\ subs[1].pc = "done" /\ subs[1].deletes = 1
    /\ clipboard = <<"H", "i">>
    /\ ~is_recording

\* C21: the stop signal is never lost: once stop has set the stop event for
\* an Active session (it is past line 187 and about to join), the capture
\* thread of that session eventually sees the event and ends, however its
\* start-up steps interleave with the stop.
C21_StopSignalNeverLost ==
    \A w \in Workers :
        (disp.pc = "stop_join" /\ recording_thread = w /\ Alive(w))
           ~> (workers[w].pc = "done")

\* C22: the processing lock never deadlocks: stop does not hold the lock
\* while it joins the capture thread, the holder of the lock is always
\* inside a lock body that ends without waiting, and so the capture
\* thread's error path and every handler of the listener thread that wait
\* for the lock eventually hold it.
C22_NoDeadlockOnLock ==
    /\ [](disp.pc = "stop_join" => processing_lock /= Disp)
    /\ [](processing_lock = Disp =>
            disp.pc \in {"start_body", "stop_body", "stop_final", "prompt_body",
                         "model_body"})
    /\ [](\A w \in Workers :
            processing_lock = WorkerThread(w) => workers[w].pc = "reset")
    /\ \A w \in Workers :
          (workers[w].pc = "except_lock") ~> (processing_lock = WorkerThread(w))
    /\ (disp.pc \in {"start_lock", "stop_lock", "stop_relock", "prompt_lock",
                     "model_lock"})
          ~> (processing_lock = Disp)

\* stop waits in its join without the lock while the capture thread it
\* joins holds the lock on its error path, with a submission in flight
C22_JoinWhileErrorPathHoldsLock ==
    /\ disp.pc = "stop_join"
    /\ recording_thread /= 0
    /\ workers[recording_thread].pc = "reset"
    /\ processing_lock = WorkerThread(recording_thread)
    /\ InFlight /= {}

====
